---- MODULE Spec2Model ----
(***************************************************************************)
(* gb-keepalive: the scheduled reachability checkers (three variants of    *)
(* the same worker) and the /deploy remediation service.                   *)
(*                                                                         *)
(*   variant "kv"     : src/unnamed/part_000 lines 1-162   (KV-guarded     *)
(*                      handleFinalFailure, Promise.allSettled dispatch)   *)
(*   variant "conc"   : src/unnamed/part_000 lines 164-323 (MAX_ATTEMPT,   *)
(*                      runWithConcurrency, p = task())                    *)
(*   variant "worker" : src/keepUpCheck_worker.js          (MAX_RETRIES,   *)
(*                      runWithConcurrency, Promise.resolve().then(task))  *)
(*   service          : src/unnamed/part_000 lines 325-540                 *)
(*                                                                         *)
(* JavaScript runs one job to completion: while handleScheduled's          *)
(* synchronous loop holds the thread (hs = "loop") or the microtask queue  *)
(* mq is not empty, no I/O completion (a response, a timer, a KV answer)   *)
(* is delivered.  Every I/O completion is one action that runs the         *)
(* continuation of the awaiting function up to its next await on I/O.      *)
(***************************************************************************)
EXTENDS Integers, Sequences, FiniteSets, TLC

VARIABLES
    variant,    \* which checker source is deployed
    urls,       \* parseUrls(env.URL_LIST): urls[i].galaxy iff url i includes 'galaxy';
                \* urls[i].net = what the endpoint behind url i may answer
    fixedToken, \* env.FIXED_TOKEN of the checker
    stateNs,    \* KV namespace bound to the service's env.STATE_KV
    cfgOk,      \* service: GITHUB_TOKEN and GH_CONTENT_API_URL are configured
    now,        \* wall clock, seconds
    kv,         \* KV namespaces: kv[ns] = [val, exp]
    tickNo,     \* scheduled events delivered so far
    budget,     \* scheduled events the scheduler will still deliver
    hs,         \* position of handleScheduled / runWithConcurrency
    nextIdx,    \* runWithConcurrency: index of the next task of the for-loop
    executing,  \* runWithConcurrency: the Set `executing`
    waitSet,    \* promises handed to the final Promise.allSettled
    mq,         \* microtask queue (FIFO)
    task,       \* task[i]: the fetchWithTimeout call chain of urls[i] in this tick
    trig,       \* history: time and tick of every POST to DEPLOY_API_URL, in order
    lastOk,     \* history: time, tick and answer of the latest POST answered with 2xx
    startFlag,  \* history: what KV.get("flag") would answer when the tick began
    svc,        \* svc[c]: the /deploy request of caller c inside the service
    gh          \* the remote file behind GH_CONTENT_API_URL

vars == <<variant, urls, fixedToken, stateNs, cfgOk, now, kv, tickNo, budget, budget, hs, nextIdx,
          executing, waitSet, mq, task, trig, lastOk, startFlag, svc, gh>>

cfgVars == <<variant, urls, fixedToken, stateNs, cfgOk>>
runVars == <<hs, nextIdx, executing, waitSet, mq>>

----------------------------------------------------------------------------
(* Bounds of the model *)

MaxUrls == 1        \* urls of the escalation scenarios
RaceUrls == 2       \* urls of the race scenarios
ProbeUrls == 1      \* urls of the single-probe scenarios
RunnerUrls == 4     \* urls of the runner scenarios (more than CONCURRENCY)
MaxClients == 2     \* other clients of the service
MaxTicks == 2       \* scheduled events
MaxAdvances == 2    \* steps of the clock

----------------------------------------------------------------------------
(* Program constants *)

MAX_RETRIES == 3
MAX_ATTEMPT == 3
RETRY_DELAY == 500
CONCURRENCY == 3
FLAG_TTL == 3 * 60 * 60
ClientTtl == 60 * 60 * 3

Variants == {"kv", "conc", "worker"}
Secret == "secret"

\* Response statuses an endpoint may answer with: success, a client error,
\* a server error, and a status above the 5xx class.
Statuses == {200, 404, 503, 600}

\* The clock moves in steps of half a TTL, so that a flag is seen both
\* half-way through its window and at its expiry.
TimeStep == FLAG_TTL \div 2

\* a rejected fetch (AbortError after TIMEOUT, or a transport error)
Failed == -1
Outcomes == Statuses \cup {Failed}

Idx == 1 .. Len(urls)
\* requests inside the service: those of the checker's tasks (1, 2, ...) and
\* those of other clients (0, -1, ...)
Callers == DOMAIN svc
ClientIds == (1 - MaxClients) .. 0

----------------------------------------------------------------------------
(* Pure helpers *)

\* response.ok
Ok(status) == status >= 200 /\ status <= 299

\* `if (response.status >= 500 && response.status < 600)` (kv, worker) and
\* `if (response.status >= 500)` (conc): the status throws into the catch block
Retryable(v, status) ==
    IF v = "conc" THEN status >= 500 ELSE status >= 500 /\ status < 600

\* mutant: one more retry than the condition of the code allows
CanRetryOnceMore(v, attempt) ==
    IF v = "conc" THEN attempt <= MAX_ATTEMPT ELSE attempt <= MAX_RETRIES + 1

\* `if (retries <= MAX_RETRIES)` (kv, worker) and `if (attempt < MAX_ATTEMPT)` (conc)
CanRetry(v, attempt) ==
    IF v = "conc" THEN attempt < MAX_ATTEMPT ELSE attempt <= MAX_RETRIES

\* mutant: the exponent counts the attempts from 0
BackoffFromZero(attempt) == RETRY_DELAY * (2 ^ (attempt - 1))

\* `RETRY_DELAY * (2 ** attempt)`
Backoff(attempt) == RETRY_DELAY * (2 ^ attempt)

\* `url.includes('galaxy')`
Eligible(i) == urls[i].galaxy

\* mutant: KV.get over a store that keeps expired keys
KvGetStale(ns) == IF kv[ns].val = "deployed" THEN "deployed" ELSE "null"

\* KV.get(key): null once the expiration has passed
KvGet(ns) == IF kv[ns].val = "deployed" /\ now < kv[ns].exp THEN "deployed" ELSE "null"

\* mutant: the checker does not look at its flag
SuppressedNever(flag) == FALSE

\* `if (flag === "deployed") return;`
Suppressed(flag) == flag = "deployed"

\* mutant: the expiration is taken in minutes instead of seconds
KvPutMinutes(ns, ttl) == [kv EXCEPT ![ns] = [val |-> "deployed", exp |-> now + ttl * 60]]

\* KV.put("flag", "deployed", { expirationTtl: ttl })
KvPut(ns, ttl) == [kv EXCEPT ![ns] = [val |-> "deployed", exp |-> now + ttl]]

\* whether the checker variant dispatches through runWithConcurrency
UsesRunner(v) == v # "kv"

\* the thread of the checker is free: nothing synchronous, no microtask pending
Idle == hs # "loop" /\ mq = <<>>

----------------------------------------------------------------------------
(* Records *)

NewTask ==
    [st |-> "pending", attempt |-> 0, delay |-> 0, last |-> 0,
     reqs |-> 0, sleeps |-> 0, hff |-> 0, posts |-> 0, kvr |-> 0, kvw |-> 0,
     flag |-> "unread", resp |-> 0]

NoRequest ==
    [pc |-> "idle", tok |-> "none", route |-> "deploy", flag |-> "unread",
     cfgChk |-> 0, kvr |-> 0, kvw |-> 0, gets |-> 0, puts |-> 0,
     status |-> 0, result |-> "none",
     newContent |-> [sec |-> FALSE, ts |-> 0, trimmed |-> FALSE]]

\* a POST /deploy on the wire carrying X-Deploy-Token = tok
Request(tok, route) == [NoRequest EXCEPT !.pc = "sent", !.tok = tok, !.route = route]
----------------------------------------------------------------------------
(* The checker: fetchWithTimeout and handleFinalFailure as record updates *)

\* fetchWithTimeout(env, url, a) up to `await fetch(url, ...)`
BeginRequest(t, a) ==
    [t EXCEPT !.st = "fetch", !.attempt = a, !.reqs = @ + 1, !.delay = 0]

\* the promise of the task settles
Settle(t) == [t EXCEPT !.st = "settled"]

\* `await fetch(env.DEPLOY_API_URL, { method: 'POST', ... })`
Post(t) == [t EXCEPT !.st = "post", !.posts = @ + 1]

\* mutant: handleFinalFailure without `if (!url.includes('galaxy')) return;`
handleFinalFailureUngated(i, t) ==
    LET t1 == [t EXCEPT !.hff = @ + 1]
    IN  IF variant = "kv"
        THEN [t1 EXCEPT !.st = "kvget", !.kvr = @ + 1]
        ELSE Post(t1)

\* handleFinalFailure(url, env) up to its first await, or to its return
handleFinalFailure(i, t) ==
    LET t1 == [t EXCEPT !.hff = @ + 1]
    IN  IF ~Eligible(i) THEN Settle(t1)
        ELSE IF variant = "kv"
             THEN [t1 EXCEPT !.st = "kvget", !.kvr = @ + 1]
             ELSE Post(t1)

\* the catch block of fetchWithTimeout: back off and retry, or give up
OnCatch(i, t) ==
    IF CanRetry(variant, t.attempt)
    THEN [t EXCEPT !.st = "sleep", !.delay = Backoff(t.attempt), !.sleeps = @ + 1]
    ELSE handleFinalFailure(i, t)

\* mutant: a 2xx answer counts as success on the first attempt only
OnResponseFirstAttemptOnly(i, t, status) ==
    LET t1 == [t EXCEPT !.last = status]
    IN  IF Ok(status) /\ t.attempt = 1 THEN Settle(t1)
        ELSE IF Retryable(variant, status) THEN OnCatch(i, t1)
        ELSE handleFinalFailure(i, t1)

\* the try block of fetchWithTimeout after `await fetch` answered with status
OnResponse(i, t, status) ==
    LET t1 == [t EXCEPT !.last = status]
    IN  IF Ok(status) THEN Settle(t1)
        ELSE IF Retryable(variant, status) THEN OnCatch(i, t1)
        ELSE handleFinalFailure(i, t1)

\* reactions queued when the promise of task i settles: the
\* `p.finally(() => executing.delete(p))` callback, then the reaction
\* Promise.race registered on p
Reactions(i) ==
    IF UsesRunner(variant) /\ i \in executing
    THEN <<[k |-> "fin", i |-> i]>>
         \o (IF hs = "race" THEN <<[k |-> "raceres", i |-> i]>> ELSE <<>>)
    ELSE <<>>

\* task i continues as record new; a new POST goes on the wire and into the
\* history, a settled promise queues its reactions.  sv is svc with the
\* caller's own changes applied.
Commit(i, new, sv) ==
    /\ task' = [task EXCEPT ![i] = new]
    /\ IF new.st = "post"
       THEN /\ trig' = Append(trig, [t |-> now, tick |-> tickNo])
            /\ svc' = [sv EXCEPT ![i] = Request(fixedToken, "deploy")]
       ELSE /\ trig' = trig
            /\ svc' = sv
    /\ mq' = IF new.st = "settled" THEN mq \o Reactions(i) ELSE mq

----------------------------------------------------------------------------
(* The checker: handleScheduled and runWithConcurrency *)

\* scheduled(event, env, ctx) -> handleScheduled(env), up to its first await.
\* The kv variant maps fetchWithTimeout over all urls and awaits
\* Promise.allSettled; the others enter the for-loop of runWithConcurrency.
handleScheduled ==
    /\ hs \in {"idle", "done", "returned"}
    /\ mq = <<>>
    /\ budget > 0
    /\ budget' = budget - 1
    /\ tickNo' = tickNo + 1
    /\ nextIdx' = 1
    /\ executing' = {}
    /\ IF Len(urls) = 0
       THEN /\ hs' = "returned"
            /\ task' = [i \in Idx |-> NewTask]
            /\ waitSet' = {}
       ELSE IF UsesRunner(variant)
       THEN /\ hs' = "loop"
            /\ task' = [i \in Idx |-> NewTask]
            /\ waitSet' = {}
       ELSE /\ hs' = "allSettled"
            /\ task' = [i \in Idx |-> BeginRequest(NewTask, 1)]
            /\ waitSet' = Idx
    /\ startFlag' = KvGet("KV")
    /\ UNCHANGED <<cfgVars, now, kv, mq, trig, lastOk, svc, gh>>

\* mutant: the race is awaited one task too late
AtLimitExceeded(size, limit) == size > limit

\* `executing.size >= limit`
AtLimit(size, limit) == size >= limit

\* one iteration of `for (const task of tasks)`: create p, add it to
\* executing, register the finally callback, and await the race at the limit
Dispatch ==
    /\ hs = "loop"
    /\ nextIdx <= Len(urls)
    /\ LET i == nextIdx
           ex == executing \cup {i}
           racing == AtLimit(Cardinality(ex), CONCURRENCY)
       IN  /\ executing' = ex
           /\ nextIdx' = i + 1
           /\ hs' = IF racing THEN "race" ELSE "loop"
           /\ IF variant = "worker"
              THEN /\ task' = [task EXCEPT ![i].st = "queued"]
                   /\ mq' = Append(mq, [k |-> "start", i |-> i])
              ELSE /\ task' = [task EXCEPT ![i] = BeginRequest(task[i], 1)]
                   /\ mq' = mq
    /\ UNCHANGED <<cfgVars, now, kv, tickNo, budget, waitSet, trig, svc, gh, lastOk, startFlag>>

\* the for-loop is over: `await Promise.allSettled(executing)`
LoopEnd ==
    /\ hs = "loop"
    /\ nextIdx > Len(urls)
    /\ hs' = "allSettled"
    /\ waitSet' = executing
    /\ UNCHANGED <<cfgVars, now, kv, tickNo, budget, nextIdx, executing, mq, task, trig, svc, gh, lastOk, startFlag>>

\* mutant: the final await resolves with the first promise that settles
AllSettledFirst ==
    /\ hs = "allSettled"
    /\ mq = <<>>
    /\ \E i \in Idx : task[i].st = "settled"
    /\ hs' = "done"
    /\ UNCHANGED <<cfgVars, now, kv, tickNo, budget, nextIdx, executing, waitSet, mq, task, trig, lastOk, startFlag, svc, gh>>

\* Promise.allSettled resolves: handleScheduled logs the end of the tick
AllSettled ==
    /\ hs = "allSettled"
    /\ mq = <<>>
    /\ \A i \in waitSet : task[i].st = "settled"
    /\ hs' = "done"
    /\ UNCHANGED <<cfgVars, now, kv, tickNo, budget, nextIdx, executing, waitSet, mq, task, trig, lastOk, startFlag, svc, gh>>

\* microtask: `Promise.resolve().then(task)` runs the task (worker variant)
RunTask ==
    /\ hs # "loop"
    /\ mq # <<>>
    /\ Head(mq).k = "start"
    /\ task' = [task EXCEPT ![Head(mq).i] = BeginRequest(@, 1)]
    /\ mq' = Tail(mq)
    /\ UNCHANGED <<cfgVars, now, kv, tickNo, budget, hs, nextIdx, executing, waitSet, trig, svc, gh, lastOk, startFlag>>

\* microtask: `() => executing.delete(p)`
Finally ==
    /\ hs # "loop"
    /\ mq # <<>>
    /\ Head(mq).k = "fin"
    /\ executing' = executing \ {Head(mq).i}
    /\ mq' = Tail(mq)
    /\ UNCHANGED <<cfgVars, now, kv, tickNo, budget, hs, nextIdx, waitSet, task, trig, svc, gh, lastOk, startFlag>>

\* microtask: the race promise resolves and queues the continuation of the loop
RaceSettled ==
    /\ hs # "loop"
    /\ mq # <<>>
    /\ Head(mq).k = "raceres"
    /\ IF hs = "race"
       THEN /\ hs' = "resuming"
            /\ mq' = Append(Tail(mq), [k |-> "resume", i |-> 0])
       ELSE /\ hs' = hs
            /\ mq' = Tail(mq)
    /\ UNCHANGED <<cfgVars, now, kv, tickNo, budget, nextIdx, executing, waitSet, task, trig, svc, gh, lastOk, startFlag>>

\* mutant: the for-loop is left after the first race
ResumeAtEnd ==
    /\ hs # "loop"
    /\ mq # <<>>
    /\ Head(mq).k = "resume"
    /\ hs' = "loop"
    /\ nextIdx' = Len(urls) + 1
    /\ mq' = Tail(mq)
    /\ UNCHANGED <<cfgVars, now, kv, tickNo, budget, executing, waitSet, task, trig, svc, gh, lastOk, startFlag>>

\* microtask: runWithConcurrency continues after `await Promise.race(executing)`
Resume ==
    /\ hs # "loop"
    /\ mq # <<>>
    /\ Head(mq).k = "resume"
    /\ hs' = "loop"
    /\ mq' = Tail(mq)
    /\ UNCHANGED <<cfgVars, now, kv, tickNo, budget, nextIdx, executing, waitSet, task, trig, svc, gh, lastOk, startFlag>>

----------------------------------------------------------------------------
(* The checker: I/O completions of a task *)

\* `await fetch(url)` answers with a status
FetchResponse(i, status) ==
    /\ Idle
    /\ task[i].st = "fetch"
    /\ status \in urls[i].net
    /\ Commit(i, OnResponse(i, task[i], status), svc)
    /\ UNCHANGED <<cfgVars, now, kv, tickNo, budget, hs, nextIdx, executing, waitSet, gh, lastOk, startFlag>>

\* `await fetch(url)` rejects: AbortError after TIMEOUT, a transport error,
\* or (conc) a body that cannot be read
FetchError(i) ==
    /\ Idle
    /\ task[i].st = "fetch"
    /\ Failed \in urls[i].net
    /\ Commit(i, OnCatch(i, [task[i] EXCEPT !.last = Failed]), svc)
    /\ UNCHANGED <<cfgVars, now, kv, tickNo, budget, hs, nextIdx, executing, waitSet, gh, lastOk, startFlag>>

\* the backoff timer fires: `return fetchWithTimeout(env, url, attempt + 1)`
SleepDone(i) ==
    /\ Idle
    /\ task[i].st = "sleep"
    /\ Commit(i, BeginRequest(task[i], task[i].attempt + 1), svc)
    /\ UNCHANGED <<cfgVars, now, kv, tickNo, budget, hs, nextIdx, executing, waitSet, gh, lastOk, startFlag>>

\* `await env.KV.get("flag")` answers (kv variant)
KvGetReturn(i) ==
    /\ Idle
    /\ task[i].st = "kvget"
    /\ LET flag == KvGet("KV")
           t1 == [task[i] EXCEPT !.flag = flag]
       IN  Commit(i, IF Suppressed(flag) THEN Settle(t1) ELSE Post(t1), svc)
    /\ UNCHANGED <<cfgVars, now, kv, tickNo, budget, hs, nextIdx, executing, waitSet, gh, lastOk, startFlag>>

\* mutant: the flag is written whatever the POST was answered with
AfterTriggerAnyStatus(t, status) ==
    LET t1 == [t EXCEPT !.resp = status]
    IN  IF variant = "kv" THEN [t1 EXCEPT !.st = "kvput"] ELSE Settle(t1)

\* the answer of the POST arrives; only the kv variant goes on to KV.put
AfterTrigger(t, status) ==
    LET t1 == [t EXCEPT !.resp = status]
    IN  IF ~Ok(status) THEN Settle(t1)
        ELSE IF variant = "kv" THEN [t1 EXCEPT !.st = "kvput"]
        ELSE Settle(t1)

TriggerResponse(i) ==
    /\ Idle
    /\ task[i].st = "post"
    /\ svc[i].pc = "resp"
    /\ Commit(i, AfterTrigger(task[i], svc[i].status), [svc EXCEPT ![i] = NoRequest])
    /\ lastOk' = IF Ok(svc[i].status)
                 THEN [t |-> now, tick |-> tickNo, result |-> svc[i].result]
                 ELSE lastOk
    /\ UNCHANGED <<cfgVars, now, kv, tickNo, budget, hs, nextIdx, executing, waitSet, startFlag, gh>>

\* mutant: handleFinalFailure without its try/catch: the error leaves
\* fetchWithTimeout and its promise rejects
OnTriggerErrorUncaught(t) == [t EXCEPT !.st = "rejected", !.resp = Failed]

\* `catch (e) { console.error(...) }` of handleFinalFailure: the error is
\* logged, handleFinalFailure returns and the promise of the task fulfils
OnTriggerError(t) == Settle([t EXCEPT !.resp = Failed])

\* the POST rejects before it reaches the service: caught, logged, not retried
TriggerError(i) ==
    /\ Idle
    /\ task[i].st = "post"
    /\ svc[i].pc = "sent"
    /\ Commit(i, OnTriggerError(task[i]), [svc EXCEPT ![i] = NoRequest])
    /\ UNCHANGED <<cfgVars, now, kv, tickNo, budget, hs, nextIdx, executing, waitSet, gh, lastOk, startFlag>>

\* `await env.KV.put("flag", "deployed", { expirationTtl: 60 * 60 * 3 })` completes
KvPutReturn(i) ==
    /\ Idle
    /\ task[i].st = "kvput"
    /\ kv' = KvPut("KV", ClientTtl)
    /\ Commit(i, Settle([task[i] EXCEPT !.kvw = @ + 1]), svc)
    /\ UNCHANGED <<cfgVars, now, tickNo, budget, hs, nextIdx, executing, waitSet, gh, lastOk, startFlag>>

\* time passes
Advance ==
    /\ Idle
    /\ now + TimeStep <= MaxAdvances * TimeStep
    /\ now' = now + TimeStep
    /\ UNCHANGED <<cfgVars, kv, tickNo, budget, runVars, task, trig, svc, gh, lastOk, startFlag>>

----------------------------------------------------------------------------
(* The remediation service: fetch(req, env, ctx) and run(env) *)

\* mutant: json(obj) with its default status, whatever the caller passed
RespondDefaultStatus(r, status, result) == [r EXCEPT !.pc = "resp", !.status = 200, !.result = result]

\* json(obj, status = 200): the response goes on the wire
Respond(r, status, result) == [r EXCEPT !.pc = "resp", !.status = status, !.result = result]

\* mutant: only a missing header is rejected
UnauthorizedIfMissing(tok) == tok = "none" \/ tok = ""

\* `!tokenFromHeader || tokenFromHeader !== env.DEPLOY_TOKEN`
Unauthorized(tok) == tok = "none" \/ tok = "" \/ tok # Secret

\* mutant: the service does not look at its flag
AlreadyDeployedIgnored(flag) == FALSE

\* `if (flag === "deployed") return { skipped: true, ... }`
AlreadyDeployed(flag) == flag = "deployed"

\* updateTimestampSection(content) at time t: an existing section is replaced
\* by the trimmed new section, a missing one is appended with its newline
updateTimestampSection(c, t) ==
    IF c.sec THEN [sec |-> TRUE, ts |-> t, trimmed |-> TRUE]
    ELSE [sec |-> TRUE, ts |-> t, trimmed |-> FALSE]

\* mutant: the comparison of the contents is lost
UnchangedIgnored(newContent, rawContent) == FALSE

\* `newContent === rawContent`
Unchanged(newContent, rawContent) == newContent = rawContent

\* another client sends a request to the service
ClientRequest(c, tok, route) ==
    /\ c \in Callers
    /\ svc[c].pc = "idle"
    /\ svc' = [svc EXCEPT ![c] = Request(tok, route)]
    /\ UNCHANGED <<cfgVars, now, kv, tickNo, budget, runVars, task, trig, gh, lastOk, startFlag>>

\* that client receives its response
ClientDone(c) ==
    /\ c \in Callers
    /\ svc[c].pc = "resp"
    /\ svc' = [svc EXCEPT ![c] = NoRequest]
    /\ UNCHANGED <<cfgVars, now, kv, tickNo, budget, runVars, task, trig, gh, lastOk, startFlag>>

\* fetch(req, env, ctx) up to the first await of run(env): routing, the token
\* check, the configuration check, then `await STATE_KV.get(FLAG_KEY)`
fetch(c) ==
    /\ svc[c].pc = "sent"
    /\ LET r == svc[c]
       IN  svc' = [svc EXCEPT ![c] =
              IF r.route # "deploy" THEN Respond(r, 404, "not_found")
              ELSE IF Unauthorized(r.tok) THEN Respond(r, 401, "unauthorized")
              ELSE IF ~cfgOk THEN Respond([r EXCEPT !.cfgChk = 1], 500, "error")
              ELSE [r EXCEPT !.cfgChk = 1, !.pc = "get", !.kvr = @ + 1]]
    /\ UNCHANGED <<cfgVars, now, kv, tickNo, budget, runVars, task, trig, gh, lastOk, startFlag>>

\* run(env): STATE_KV.get answered; skip, or `await getFile(...)`
runFlag(c) ==
    /\ svc[c].pc = "get"
    /\ LET flag == KvGet(stateNs)
           r == [svc[c] EXCEPT !.flag = flag]
       IN  svc' = [svc EXCEPT ![c] =
              IF AlreadyDeployed(flag) THEN Respond(r, 200, "skipped_deployed")
              ELSE [r EXCEPT !.pc = "getFile", !.gets = @ + 1]]
    /\ UNCHANGED <<cfgVars, now, kv, tickNo, budget, runVars, task, trig, gh, lastOk, startFlag>>

\* run(env): getFile answered; on !res.ok it throws (500), on unchanged
\* content it skips, otherwise `await updateFile(...)`
runGetFile(c, ok) ==
    /\ svc[c].pc = "getFile"
    /\ LET r == svc[c]
           newContent == updateTimestampSection(gh, now)
       IN  svc' = [svc EXCEPT ![c] =
              IF ~ok THEN Respond(r, 500, "error")
              ELSE IF Unchanged(newContent, gh) THEN Respond(r, 200, "skipped_unchanged")
              ELSE [r EXCEPT !.pc = "updateFile", !.newContent = newContent]]
    /\ UNCHANGED <<cfgVars, now, kv, tickNo, budget, runVars, task, trig, gh, lastOk, startFlag>>

\* run(env): updateFile answered; on !res.ok it throws (500), otherwise the
\* remote file is replaced and `await STATE_KV.put(...)` follows
runUpdateFile(c, ok) ==
    /\ svc[c].pc = "updateFile"
    /\ IF ok
       THEN /\ gh' = svc[c].newContent
            /\ svc' = [svc EXCEPT ![c].pc = "put", ![c].puts = @ + 1]
       ELSE /\ gh' = gh
            /\ svc' = [svc EXCEPT ![c] = Respond(svc[c], 500, "error")]
    /\ UNCHANGED <<cfgVars, now, kv, tickNo, budget, runVars, task, trig, lastOk, startFlag>>

\* run(env): STATE_KV.put completed; `return { deployed: true }`
runPut(c) ==
    /\ svc[c].pc = "put"
    /\ kv' = KvPut(stateNs, FLAG_TTL)
    /\ svc' = [svc EXCEPT ![c] = Respond([svc[c] EXCEPT !.kvw = @ + 1], 200, "deployed")]
    /\ UNCHANGED <<cfgVars, now, tickNo, budget, runVars, task, trig, gh, lastOk, startFlag>>

----------------------------------------------------------------------------
(* Next-state relations *)

Tokens == {"none", "wrong", Secret}

\* handleScheduled and the for-loop of runWithConcurrency below the limit
LoopNext ==
    \/ handleScheduled
    \/ Dispatch
    \/ LoopEnd
    \/ AllSettled
    \/ Finally

\* the suspension of the for-loop at the limit
RaceNext ==
    \/ RaceSettled
    \/ Resume

\* the retry path of fetchWithTimeout
RetryNext ==
    \/ \E i \in Idx : FetchError(i)
    \/ \E i \in Idx : SleepDone(i)

\* the answer of a probe and the trigger call of handleFinalFailure
AnswerNext ==
    \/ \E i \in Idx, status \in Statuses : FetchResponse(i, status)
    \/ \E i \in Idx : TriggerResponse(i)
    \/ \E i \in Idx : TriggerError(i)

TaskNext == AnswerNext \/ RetryNext

\* the flag of the kv variant
KvNext ==
    \/ \E i \in Idx : KvGetReturn(i)
    \/ \E i \in Idx : KvPutReturn(i)

\* run(env) of the service past its configuration check
RunNext ==
    \/ \E c \in Callers : runFlag(c)
    \/ \E c \in Callers, ok \in BOOLEAN : runGetFile(c, ok)
    \/ \E c \in Callers, ok \in BOOLEAN : runUpdateFile(c, ok)
    \/ \E c \in Callers : runPut(c)

ServiceNext == (\E c \in Callers : fetch(c)) \/ RunNext

ClientNext ==
    \/ \E c \in ClientIds, tok \in Tokens, route \in {"deploy", "other"} :
          ClientRequest(c, tok, route)
    \/ \E c \in ClientIds : ClientDone(c)

----------------------------------------------------------------------------
(* Initial states *)

Files == {[sec |-> FALSE, ts |-> 0, trimmed |-> FALSE],
          [sec |-> TRUE, ts |-> 0, trimmed |-> TRUE]}

NoFlag == [val |-> "none", exp |-> 0]

\* endpoints that behave the same on every attempt
Up == {200}
Gone == {404}
Down == {503}
Beyond == {600}
Dead == {Failed}

Endpoints(nets) == [galaxy : BOOLEAN, net : nets]

UrlLists(lo, hi, eps) == UNION {[1 .. n -> eps] : n \in lo .. hi}

\* the state after the worker is deployed, before the first scheduled event
InitRun(clients) ==
    /\ now = 0
    /\ kv = [ns \in {"KV", "STATE"} |-> NoFlag]
    /\ tickNo = 0
    /\ hs = "idle"
    /\ nextIdx = 1
    /\ executing = {}
    /\ waitSet = {}
    /\ mq = <<>>
    /\ task = [i \in Idx |-> NewTask]
    /\ trig = <<>>
    /\ lastOk = [t |-> -1, tick |-> 0, result |-> "none"]
    /\ startFlag = "null"
    /\ svc = [c \in Idx \cup clients |-> NoRequest]

----------------------------------------------------------------------------
(* Specifications *)

\* Escalation scenarios: every variant, up to MaxUrls endpoints that answer
\* 200 or 404 (the retry path is left to SpecProbe), MaxTicks scheduled
\* events, the service behind DEPLOY_API_URL, the clock.
Init ==
    /\ variant \in Variants
    /\ urls \in UrlLists(0, MaxUrls, Endpoints({Up, Gone}))
    /\ fixedToken = Secret
    /\ stateNs \in {"KV", "STATE"}
    /\ cfgOk = TRUE
    /\ gh \in Files
    /\ budget = MaxTicks
    /\ InitRun({})

Next == LoopNext \/ RunTask \/ AnswerNext \/ KvNext \/ ServiceNext \/ Advance

Spec == Init /\ [][Next]_vars

\* Race scenarios: every variant, RaceUrls endpoints that answer 200 or 404
\* on every attempt, one scheduled event.
InitRace ==
    /\ variant \in Variants
    /\ urls \in UrlLists(RaceUrls, RaceUrls, Endpoints({Up, Gone}))
    /\ fixedToken = Secret
    /\ stateNs \in {"KV", "STATE"}
    /\ cfgOk = TRUE
    /\ gh \in Files
    /\ budget = 1
    /\ InitRun({})

SpecRace == InitRace /\ [][Next]_vars

\* Single-probe scenarios: every variant, one scheduled event, ProbeUrls
\* endpoints, each either steady or answering anything on any attempt.
ProbeNets == {Outcomes, Up, Gone, Down, Beyond, Dead}

InitProbe ==
    /\ variant \in Variants
    /\ urls \in UrlLists(ProbeUrls, ProbeUrls, Endpoints(ProbeNets))
    /\ fixedToken \in {Secret, "wrong"}
    /\ stateNs = "STATE"
    /\ cfgOk = TRUE
    /\ gh \in Files
    /\ budget = 1
    /\ InitRun({})

NextProbe == LoopNext \/ RunTask \/ TaskNext \/ KvNext \/ ServiceNext

SpecProbe == InitProbe /\ [][NextProbe]_vars

\* Runner scenarios: the variants with runWithConcurrency, one scheduled
\* event, RunnerUrls endpoints of three kinds: one that answers, one that is
\* gone and escalates, one that never answers.  The checker's token is
\* wrong, so the service answers every trigger with 401.
RunnerEndpoints ==
    {[galaxy |-> FALSE, net |-> Up], [galaxy |-> TRUE, net |-> Gone],
     [galaxy |-> FALSE, net |-> Dead]}

InitRunner ==
    /\ variant \in {"conc", "worker"}
    /\ urls \in UrlLists(RunnerUrls, RunnerUrls, RunnerEndpoints)
    /\ fixedToken = "wrong"
    /\ stateNs = "STATE"
    /\ cfgOk = TRUE
    /\ gh = [sec |-> FALSE, ts |-> 0, trimmed |-> FALSE]
    /\ budget = 1
    /\ InitRun({})

NextRunner ==
    LoopNext \/ RunTask \/ RaceNext \/ TaskNext \/ (\E c \in Callers : fetch(c))

SpecRunner == InitRunner /\ [][NextRunner]_vars

\* Service scenarios: the service alone with MaxClients clients.
InitSvc ==
    /\ variant = "kv"
    /\ urls = <<>>
    /\ fixedToken = Secret
    /\ stateNs = "STATE"
    /\ cfgOk \in BOOLEAN
    /\ gh \in Files
    /\ budget = 0
    /\ InitRun(ClientIds)

NextSvc == ServiceNext \/ ClientNext \/ Advance

SpecSvc == InitSvc /\ [][NextSvc]_vars

----------------------------------------------------------------------------
(* Claims *)

\* tasks dispatched by the tick whose promise has not settled
InFlight == {i \in Idx : task[i].st \notin {"pending", "settled"}}

\* fetchWithTimeout of url i has finished probing: it succeeded or it called
\* handleFinalFailure
Ended(i) == task[i].st \in {"kvget", "post", "kvput", "settled"}

\* trigger calls made in the current tick
PostsInTick == Cardinality({i \in Idx : task[i].posts > 0})

\* C1: the checker never issues a second POST to the deploy endpoint less
\* than the 3-hour TTL after a previous one.  Stated for the KV-guarded
\* checker, the one that keeps a window.
C1_OneTriggerPerWindow ==
    variant = "kv" =>
        \A a, b \in DOMAIN trig : a < b => trig[b].t - trig[a].t >= ClientTtl

\* C2: the number of probe tasks dispatched by runWithConcurrency and not yet
\* settled never exceeds CONCURRENCY; a task is in flight through its
\* retries, its backoff sleeps and its final-failure handling.
C2_InFlightWithinLimit == Cardinality(InFlight) <= CONCURRENCY

C2_Witness ==
    /\ Cardinality(InFlight) = CONCURRENCY
    /\ nextIdx <= Len(urls)
    /\ \E i \in InFlight : task[i].st = "sleep"
    /\ \E i \in InFlight : task[i].st = "post"

\* the requests a permanently failing endpoint is expected to receive
MaxRequests(v) == IF v = "conc" THEN MAX_ATTEMPT ELSE MAX_RETRIES + 1

\* url i answers 5xx on every attempt
Always5xx(i) == \A o \in urls[i].net : o >= 500 /\ o <= 599

\* C3 as written: an endpoint that answers 5xx on every attempt receives
\* exactly 3 requests, then handleFinalFailure is invoked once; request
\* number 4 is never issued.
C3_ThreeRequests ==
    \A i \in Idx : Always5xx(i) =>
        /\ task[i].reqs <= 3
        /\ Ended(i) => task[i].reqs = 3 /\ task[i].hff = 1

\* C3 amended: such an endpoint receives exactly MAX_ATTEMPT = 3 requests
\* from the checker that tests `attempt < MAX_ATTEMPT`, and exactly
\* MAX_RETRIES + 1 = 4 requests from the checkers that test
\* `retries <= MAX_RETRIES`; then handleFinalFailure is invoked once, and no
\* further request is issued.
C3_BudgetRequests ==
    \A i \in Idx : Always5xx(i) =>
        /\ task[i].reqs <= MaxRequests(variant)
        /\ task[i].hff <= 1
        /\ task[i].hff = 1 => task[i].reqs = MaxRequests(variant)
        /\ Ended(i) => task[i].hff = 1

C3_Witness ==
    \E i \in Idx :
        /\ Always5xx(i)
        /\ variant = "worker"
        /\ task[i].st = "settled"
        /\ task[i].hff = 1
        /\ task[i].reqs = 4

\* url i answers a status outside 2xx and 5xx on every attempt
AlwaysOther(i) == \A o \in urls[i].net : o # Failed /\ ~Ok(o) /\ ~(o >= 500 /\ o <= 599)

\* C4: an endpoint whose status is neither 2xx nor 5xx receives exactly one
\* request, is never slept on or retried, and ends in handleFinalFailure.
C4_OtherStatusNotRetried ==
    \A i \in Idx : AlwaysOther(i) =>
        /\ task[i].reqs <= 1
        /\ task[i].sleeps = 0
        /\ task[i].st # "sleep"
        /\ Ended(i) => task[i].hff = 1

\* C5: for a url without 'galaxy' no trigger call is made and the flag is
\* neither read nor written, whatever the outcome of its probe.
C5_NoEscalationWithoutKeyword ==
    /\ \A i \in Idx : ~urls[i].galaxy =>
          /\ task[i].posts = 0
          /\ task[i].kvr = 0
          /\ task[i].kvw = 0
          /\ task[i].flag = "unread"
          /\ task[i].st \notin {"kvget", "post", "kvput"}
          /\ svc[i].pc = "idle"
    /\ (\A i \in Idx : ~urls[i].galaxy) => trig = <<>> /\ kv["KV"] = NoFlag

C5_Witness ==
    \E i \in Idx :
        /\ ~urls[i].galaxy
        /\ variant = "kv"
        /\ task[i].hff = 1
        /\ task[i].st = "settled"
        /\ task[i].last = 404

C7_ExactlyOneTriggerPerTick ==
    (/\ variant = "kv"
     /\ hs = "done"
     /\ startFlag = "null"
     /\ \E i \in Idx : urls[i].galaxy /\ task[i].hff = 1)
    => PostsInTick = 1

\* C8: a POST /deploy whose X-Deploy-Token is missing or is not the secret
\* is answered 401 and nothing else happens: no configuration check, no
\* flag read or write, no file read or update.
C8_UnauthorizedFirst ==
    \A c \in Callers :
        (/\ svc[c].route = "deploy"
         /\ svc[c].tok # Secret
         /\ svc[c].pc \notin {"idle", "sent"})
        => /\ svc[c].pc = "resp"
           /\ svc[c].status = 401
           /\ svc[c].cfgChk = 0
           /\ svc[c].kvr = 0
           /\ svc[c].kvw = 0
           /\ svc[c].gets = 0
           /\ svc[c].puts = 0
           /\ svc[c].flag = "unread"

C8_Witness ==
    \E c \in Callers :
        /\ svc[c].tok = "wrong"
        /\ svc[c].pc = "resp"
        /\ svc[c].status = 401
        /\ KvGet(stateNs) = "deployed"

\* C9: when an authorized request reads the flag as 'deployed', the service
\* answers 200 skipped, reads and updates no file, and writes no flag: value
\* and expiry of the flag stay as they were.
C9_SkipWhenDeployed ==
    [][\A c \in Callers :
          (svc[c].pc = "get" /\ svc'[c].pc # "get" /\ KvGet(stateNs) = "deployed")
          => /\ svc'[c].pc = "resp"
             /\ svc'[c].status = 200
             /\ svc'[c].result = "skipped_deployed"
             /\ svc'[c].gets = 0
             /\ svc'[c].puts = 0
             /\ svc'[c].kvw = 0
             /\ kv' = kv
             /\ gh' = gh]_vars

C9_Witness ==
    \E c \in Callers :
        /\ svc[c].pc = "resp"
        /\ svc[c].flag = "deployed"
        /\ svc[c].result = "skipped_deployed"

\* C10: when the file read by the service already equals the updated
\* content, the service answers 200 skipped and does not write the flag.
C10_NoFlagWhenUnchanged ==
    [][\A c \in Callers :
          (/\ svc[c].pc = "getFile"
           /\ svc'[c].pc # "getFile"
           /\ svc'[c].status # 500
           /\ updateTimestampSection(gh, now) = gh)
          => /\ svc'[c].pc = "resp"
             /\ svc'[c].status = 200
             /\ svc'[c].result = "skipped_unchanged"
             /\ svc'[c].kvw = 0
             /\ svc'[c].puts = 0
             /\ kv' = kv
             /\ gh' = gh]_vars

C10_Witness ==
    \E c \in Callers :
        /\ svc[c].pc = "resp"
        /\ svc[c].result = "skipped_unchanged"
        /\ svc[c].kvw = 0
        /\ kv[stateNs] = NoFlag

\* C11: when run(env) throws (the configuration is missing, getFile or
\* updateFile answers with an error), the service answers 500 and the step
\* writes no flag: the request has written none and the flag stays as it was.
C11_FailureAnswers500 ==
    [][\A c \in Callers :
          (\/ runGetFile(c, FALSE)
           \/ runUpdateFile(c, FALSE)
           \/ (fetch(c) /\ svc[c].route = "deploy" /\ ~Unauthorized(svc[c].tok) /\ ~cfgOk))
          => /\ svc'[c].pc = "resp"
             /\ svc'[c].status = 500
             /\ svc'[c].result = "error"
             /\ svc'[c].kvw = 0
             /\ svc'[c].puts = 0
             /\ kv' = kv
             /\ gh' = gh]_vars

\* a request failed in getFile or updateFile, and a later authorized request
\* read the flag as absent and went on to the file
C11_Witness ==
    \E c, d \in Callers :
        /\ c # d
        /\ svc[c].pc = "resp"
        /\ svc[c].status = 500
        /\ svc[c].gets = 1
        /\ svc[d].tok = Secret
        /\ svc[d].flag = "null"
        /\ svc[d].pc = "updateFile"

\* C12: when updateFile has succeeded, the service writes the flag with a
\* TTL of 3 hours and answers 200 deployed; the flag changes in no other
\* step, and only a request whose own updateFile succeeded writes it.
C12_FlagOnlyAfterUpdate ==
    [][/\ \A c \in Callers :
             /\ runUpdateFile(c, TRUE) => svc'[c].pc = "put" /\ svc'[c].puts = 1
             /\ (svc[c].pc = "put" /\ svc'[c].pc # "put")
                => /\ kv'[stateNs] = [val |-> "deployed", exp |-> now + 3 * 60 * 60]
                   /\ svc'[c].pc = "resp"
                   /\ svc'[c].status = 200
                   /\ svc'[c].result = "deployed"
                   /\ svc'[c].kvw = 1
             /\ svc'[c].kvw > svc[c].kvw => svc[c].pc = "put" /\ svc[c].puts = 1
             /\ (svc'[c].result = "deployed" /\ svc[c].result # "deployed")
                => svc[c].pc = "put"
       /\ kv' # kv => \E c \in Callers : svc[c].pc = "put" /\ svc[c].puts = 1]_vars

C12_Witness ==
    \E c \in Callers :
        /\ svc[c].pc = "resp"
        /\ svc[c].result = "deployed"
        /\ svc[c].puts = 1
        /\ svc[c].kvw = 1
        /\ kv[stateNs] = [val |-> "deployed", exp |-> now + FLAG_TTL]
        /\ gh = svc[c].newContent

\* what fetchWithTimeout of url i has done when it ran to its end: one
\* request for an endpoint that answers, the whole retry budget for one that
\* never answers, and the trigger call with its answer for a matching url
RanToEnd(i) ==
    /\ task[i].st = "settled"
    /\ task[i].reqs >= 1
    /\ urls[i].net = Up => task[i].reqs = 1 /\ task[i].hff = 0
    /\ urls[i].net # Up => task[i].hff = 1
    /\ urls[i].net = Dead =>
          task[i].reqs = MaxRequests(variant) /\ task[i].sleeps = MaxRequests(variant) - 1
    /\ (urls[i].net # Up /\ urls[i].galaxy) => task[i].posts = 1 /\ task[i].resp # 0

\* C13: when runWithConcurrency returns and handleScheduled logs the end of
\* the tick, every task has settled after running to its end (retries and
\* final-failure handling included); a settled task has never been cut short
\* by the failure of another one.
C13_ReturnsAfterAllSettled ==
    /\ hs = "done" => \A i \in Idx : RanToEnd(i)
    /\ \A i \in Idx : task[i].st = "settled" => RanToEnd(i)

C13_Witness ==
    /\ hs = "done"
    /\ \E i \in Idx : urls[i].net = Dead /\ task[i].hff = 1 /\ i <= CONCURRENCY
    /\ \E i \in Idx : urls[i].net = Gone /\ task[i].resp = 401 /\ i > CONCURRENCY
    /\ \E i \in Idx : urls[i].net = Up /\ task[i].st = "settled"

\* Runner scenarios under fairness: endpoints that answer at once and
\* endpoints that never answer and hold their slot through every retry.  The
\* event loop keeps running while a microtask, a timer or a network answer is
\* due, and every network call and every timer completes.
FairEndpoints == {[galaxy |-> FALSE, net |-> Up], [galaxy |-> FALSE, net |-> Dead]}

InitRunnerFair ==
    /\ variant \in {"conc", "worker"}
    /\ urls \in UrlLists(RunnerUrls, RunnerUrls, FairEndpoints)
    /\ fixedToken = "wrong"
    /\ stateNs = "STATE"
    /\ cfgOk = TRUE
    /\ gh = [sec |-> FALSE, ts |-> 0, trimmed |-> FALSE]
    /\ budget = 1
    /\ InitRun({})

NextRunnerFair ==
    \/ LoopNext
    \/ RunTask
    \/ RaceNext
    \/ RetryNext
    \/ \E i \in Idx, status \in Statuses : FetchResponse(i, status)

SpecRunnerFair == InitRunnerFair /\ [][NextRunnerFair]_vars /\ WF_vars(NextRunnerFair)

\* the probe task of url i has been started exactly once in this tick: the
\* requests it has issued are those of one chain of attempts 1, 2, ...
StartedOnce(i) == task[i].attempt >= 1 /\ task[i].reqs = task[i].attempt

\* C14: in a tick every endpoint of the list is eventually probed, and no
\* probe task is started twice: the requests to an endpoint are always those
\* of a single chain of attempts, and the tick ends with every endpoint
\* probed once.
C14_EveryEndpointProbedOnce ==
    /\ [](\A i \in Idx : task[i].reqs = task[i].attempt)
    /\ \A n \in 1 .. RunnerUrls + 1 :
          (tickNo = 1 /\ n \in Idx) ~> (n \in Idx /\ StartedOnce(n))
    /\ (tickNo = 1) ~> (hs = "done" /\ \A i \in Idx : StartedOnce(i))

C14_Witness ==
    /\ hs = "done"
    /\ variant = "worker"
    /\ \A i \in Idx : StartedOnce(i)
    /\ \E i \in Idx : i > CONCURRENCY /\ task[i].reqs = 1
    /\ \E i \in Idx : i <= CONCURRENCY /\ task[i].reqs = MAX_RETRIES + 1

\* C15: the promise of a probe task never rejects, whatever its endpoint
\* and the deploy endpoint do (timeout or transport error on every attempt,
\* a non-2xx status, a trigger call answered 401 or failing in transport);
\* when the tick ends every task has been dispatched and has settled, and
\* every endpoint that answers 200 was probed successfully, whatever
\* happened to the others.
C15_NoRejection ==
    /\ \A i \in Idx : task[i].st # "rejected"
    /\ hs = "done" =>
          \A i \in Idx :
              /\ task[i].st = "settled"
              /\ task[i].reqs >= 1
              /\ urls[i].net = Up => task[i].last = 200 /\ task[i].hff = 0

C15_Witness ==
    /\ hs = "done"
    /\ \E i, j, k \in Idx :
          /\ i < k /\ j < k
          /\ urls[i].net = Gone /\ task[i].resp = Failed
          /\ urls[j].net = Dead /\ task[j].hff = 1
          /\ urls[k].net = Up /\ task[k].last = 200
          /\ k > CONCURRENCY

\* C16: once handleFinalFailure has made its trigger call, the task issues
\* no second trigger call, no further probe request and no backoff sleep; a
\* trigger call that fails (non-2xx answer or transport error) settles the
\* task and leaves the flag as it was; the checker's flag is written only by
\* a task whose trigger call was answered with 2xx.
C16_FailedTriggerIsFinal ==
    [][/\ \A i \in Idx :
             /\ task[i].posts >= 1
                => /\ task'[i].posts = 1
                   /\ task'[i].reqs = task[i].reqs
                   /\ task'[i].sleeps = task[i].sleeps
                   /\ task'[i].st \notin {"fetch", "sleep", "kvget"}
             /\ (task[i].st = "post" /\ task'[i].st # "post" /\ ~Ok(task'[i].resp))
                => /\ task'[i].st = "settled"
                   /\ task'[i].kvw = 0
                   /\ kv' = kv
             /\ task'[i].kvw > task[i].kvw
                => task[i].st = "kvput" /\ Ok(task[i].resp)
       /\ kv'["KV"] # kv["KV"]
          => \E i \in Idx : task[i].st = "kvput" /\ Ok(task[i].resp)]_vars

C16_Witness ==
    \E i \in Idx :
        /\ variant = "kv"
        /\ task[i].st = "settled"
        /\ task[i].sleeps >= 1
        /\ task[i].flag = "null"
        /\ task[i].posts = 1
        /\ task[i].resp = 500
        /\ task[i].kvw = 0
        /\ kv["KV"] = NoFlag

\* C17: every write of the flag sets it to expire 3 hours later; a terminal
\* failure of a matching endpoint that the KV-guarded checker handles at or
\* after the expiry reads the flag as absent and makes the trigger call.
C17_TriggerAgainAfterExpiry ==
    [][/\ \A ns \in DOMAIN kv :
             kv'[ns] # kv[ns] => kv'[ns] = [val |-> "deployed", exp |-> now + 3 * 60 * 60]
       /\ \A i \in Idx :
             (/\ task[i].st = "kvget"
              /\ task'[i].st # "kvget"
              /\ now >= kv["KV"].exp)
             => /\ task'[i].flag = "null"
                /\ task'[i].st = "post"
                /\ task'[i].posts = 1
                /\ Len(trig') = Len(trig) + 1]_vars

\* the second tick runs when the flag written after the first one has
\* expired, and triggers again
C17_Witness ==
    /\ variant = "kv"
    /\ tickNo = 2
    /\ lastOk.tick = 1
    /\ kv["KV"].val = "deployed"
    /\ now >= kv["KV"].exp
    /\ Len(trig) = 2
    /\ \E i \in Idx : urls[i].galaxy /\ task[i].flag = "null" /\ task[i].st = "post"

\* C18: the KV-guarded checker works through the list serially: at most one
\* probe is in flight, and the probe of a url starts only after the probes
\* of the urls before it have settled.
C18_SerialProbes ==
    variant = "kv" =>
        /\ Cardinality(InFlight) <= 1
        /\ \A i, j \in Idx : (i < j /\ task[j].reqs >= 1) => task[i].st = "settled"

\* a timeout, a transport error or a 5xx answer
RetryableFailure(o) == o = Failed \/ (o >= 500 /\ o <= 599)

\* the delays after attempts 1, 2, 3 for RETRY_DELAY = 500
ExpectedDelays == <<1000, 2000, 4000>>

AfterNoOp ==
    /\ lastOk.result = "skipped_unchanged"
    /\ lastOk.tick < tickNo
    /\ now < lastOk.t + FLAG_TTL

\* C20: after a no-op answer, a terminal failure of a matching endpoint in
\* a later tick inside the 3 hours is never suppressed by the checker, and
\* the service does not answer its trigger call as already deployed.
C20_TriggerAfterNoOp ==
    AfterNoOp =>
        \A i \in Idx :
            /\ ~(/\ urls[i].galaxy
                 /\ task[i].hff = 1
                 /\ task[i].st = "settled"
                 /\ task[i].posts = 0)
            /\ svc[i].result # "skipped_deployed"

\* C21: handleFinalFailure is invoked at most once for an endpoint in a
\* tick; a probe that has ended has invoked it exactly when its last
\* attempt did not return 2xx; once an attempt has returned 2xx, after
\* retries or not, the task is settled without escalation: no
\* handleFinalFailure, no flag read, no trigger call, no further request.
C21_OneTerminalOutcome ==
    \A i \in Idx :
        /\ task[i].hff <= 1
        /\ Ended(i) => (task[i].hff = 1 <=> ~Ok(task[i].last))
        /\ task[i].hff = 1 => Ended(i)
        /\ Ok(task[i].last)
           => /\ task[i].st = "settled"
              /\ task[i].hff = 0
              /\ task[i].kvr = 0
              /\ task[i].posts = 0
              /\ task[i].reqs = task[i].attempt
              /\ task[i].sleeps = task[i].attempt - 1

\* a matching endpoint that answered 2xx on its third attempt
C21_Witness ==
    \E i \in Idx :
        /\ urls[i].galaxy
        /\ task[i].st = "settled"
        /\ task[i].last = 200
        /\ task[i].attempt = 3
        /\ task[i].sleeps = 2
        /\ task[i].hff = 0

====
